---- MODULE Spec2Model ----
(***************************************************************************)
(* A model of blargbot's tag-language surface:                             *)
(*   - the {delete} subtag          (src/src/tags/delete.js)               *)
(*   - the ccommand command         (src/unnamed/part_001, CustomCommand)  *)
(*   - the shrinkwrap export/import (src/unnamed/part_001)                 *)
(*   - the evaluator / limit policy (specified in spec.md sections 4.3-5;  *)
(*     its code is not part of src/)                                       *)
(* Each subsystem has its own specification over the shared variables.     *)
(***************************************************************************)
EXTENDS Integers, Sequences, FiniteSets, TLC

VARIABLES
    dctx,                 \* {delete}: one record per Context (invocation)
    notCommandMessages,   \* bu.notCommandMessages: set of <<guildId, messageId>>
    messages,             \* platform: the existing messages, <<channelId, messageId>>
    deleteIssued,         \* platform: bot.deleteMessage calls issued, <<guild, channel, msg>>
    commands,             \* store: the guild's custom commands, by name
    cproc,                \* ccommand: one record per running invocation
    bundle,               \* shrinkwrap.json as the user holds it: signature and payload
    swPc,                 \* shrinkwrap/install: where the export and the install stand
    swTampered,           \* whether the payload was changed after it was signed
    swWarning,            \* install: the signature warning put in the confirmation
    ctxStack,             \* evaluator: the Contexts of the running invocation, top-level first
    evStatus,             \* evaluator: idle, running, done, aborted or halted
    terminal,             \* evaluator: the terminal diagnostic of an aborted invocation
    evErrors,             \* evaluator: the error log (non-fatal diagnostics, in order)
    now,                  \* wall clock, in ticks since the invocation started
    policy,               \* the Limit Policy the top-level Context was created with
    evGhost,              \* history: calls executed in all Contexts, time of the last call entry
    inst,                 \* ccommand install: the running installCommands call
    arStore               \* store: the guild's autoresponses and their commands

deleteVars == <<dctx, notCommandMessages, messages, deleteIssued>>

ccVars == <<commands, cproc>>

swVars == <<bundle, swPc, swTampered, swWarning, inst, arStore>>

evVars == <<ctxStack, evStatus, terminal, evErrors, now, policy, evGhost>>

vars == <<dctx, notCommandMessages, messages, deleteIssued, commands, cproc,
          bundle, swPc, swTampered, swWarning,
          ctxStack, evStatus, terminal, evErrors, now, policy, evGhost,
          inst, arStore>>

(***************************************************************************)
(*                        {delete}  (delete.js)                            *)
(***************************************************************************)

\* The largest number of arguments a modelled {delete} call carries.
MaxArgs == 3

Contexts == {"c1", "c2"}
ChannelIds == {"ch1", "ch2"}
\* what a script may write as a channel argument: a channel or something unresolvable
ChannelArgs == ChannelIds \cup {"nochan"}
MessageIds == {"m1", "m2", "m3"}

\* context.guild.id, context.channel.id, context.msg.id of each invocation
CtxGuild(c) == "g1"
CtxChannel(c) == "ch1"
CtxMsg(c) == IF c = "c1" THEN "m1" ELSE "m2"

NoMsg == [channel |-> "none", id |-> "none"]

\* The default handler is recorded as arity -1.
DefaultHandler == 0 - 1

\* Mutant of DeleteArities: a handler registered for three arguments as well.
DeleteArities_Mut == {0, 1, 2, 3}

\* .whenArgs(0, ...) .whenArgs(1, ...) .whenArgs(2, ...)
DeleteArities == {0, 1, 2}

\* Arity dispatch: the handler registered for exactly n arguments, else the default.
SelectHandler(arities, n) == IF n \in arities THEN n ELSE DefaultHandler

\* The (channelId, messageId) the selected whenArgs handler passes to deleteMessage.
HandlerTarget(c, h, args) ==
    IF h = 0 THEN [channelId |-> CtxChannel(c), messageId |-> CtxMsg(c)]
    ELSE IF h = 1 THEN [channelId |-> CtxChannel(c), messageId |-> args[1]]
    ELSE [channelId |-> args[1], messageId |-> args[2]]

\* The argument lists a script may pass: args[1] is a channel or a message id
\* according to the arity, further arguments are never read.
ArgLists ==
    {<<>>}
    \cup {<<m>> : m \in MessageIds}
    \cup {<<ch, m>> : ch \in ChannelArgs, m \in MessageIds}
    \cup {<<"ch1", "m3">> \o [i \in 1..k |-> "x"] : k \in 1..(MaxArgs - 2)}

IdleCtx == [pc |-> "idle", nargs |-> 0, handler |-> DefaultHandler,
            channelId |-> "none", messageId |-> "none",
            isStaff |-> FALSE, owns |-> FALSE,
            channel |-> "none", msg |-> NoMsg,
            result |-> "pending", errors |-> {}, effects |-> {},
            deleteOutcome |-> "none"]

\* Builder.util.error / Builder.errors.*: the call returns an error token, logged
\* in the context's error list.
ReturnError(r, err) == [r EXCEPT !.pc = "done", !.result = err, !.errors = @ \cup {err}]

\* bu.notCommandMessages[context.guild.id][context.msg.id] = true
MarkerKey(c, msg) == <<CtxGuild(c), CtxMsg(c)>>

\* Lines 43-50: the marker write and the issue of bot.deleteMessage, with no
\* await in between.
MarkAndIssueDelete(c, r, msg) ==
    /\ notCommandMessages' = notCommandMessages \cup {MarkerKey(c, msg)}
    /\ deleteIssued' = deleteIssued \cup {<<CtxGuild(c), msg.channel, msg.id>>}
    /\ dctx' = [dctx EXCEPT ![c] =
                  [r EXCEPT !.pc = "deleting", !.msg = msg,
                            !.effects = @ \cup {"marker", "deleteMessage"}]]

\* A {delete} call with the given arguments is dispatched; the selected handler
\* calls this.deleteMessage, which suspends on `await context.isStaff`.
DeleteDispatch(c) ==
    /\ dctx[c].pc = "idle"
    /\ \E args \in ArgLists, staff \in BOOLEAN, owns \in BOOLEAN :
         LET n == Len(args)
             h == SelectHandler(DeleteArities, n)
             r0 == [dctx[c] EXCEPT !.nargs = n, !.handler = h,
                                   !.isStaff = staff, !.owns = owns]
         IN  IF h = DefaultHandler
             THEN dctx' = [dctx EXCEPT ![c] = ReturnError(r0, "tooManyArguments")]
             ELSE LET t == HandlerTarget(c, h, args)
                  IN  dctx' = [dctx EXCEPT ![c] =
                                 [r0 EXCEPT !.pc = "auth",
                                            !.channelId = t.channelId,
                                            !.messageId = t.messageId]]
    /\ UNCHANGED <<notCommandMessages, messages, deleteIssued, ccVars, swVars, evVars>>

\* Whether the invocation is a custom command (isCC, set by whoever runs the
\* script: runRaw and runCommand pass isCC: true); c2 runs a public tag.
CtxIsCC(c) == c = "c1"

\* Mutant of DeleteAuth: the staff / ownership test is skipped.
DeleteAuth_Mut(c) ==
    /\ dctx[c].pc = "auth"
    /\ dctx' = [dctx EXCEPT ![c] =
                  [@ EXCEPT !.pc = "chan", !.effects = @ \cup {"parseChannel"}]]
    /\ UNCHANGED <<notCommandMessages, messages, deleteIssued, ccVars, swVars, evVars>>

\* Line 27-31: the staff / ownership test, then parseChannel is awaited.
DeleteAuth(c) ==
    /\ dctx[c].pc = "auth"
    /\ IF ~(dctx[c].isStaff \/ dctx[c].owns)
       THEN dctx' = [dctx EXCEPT ![c] = ReturnError(@, "notStaff")]
       ELSE dctx' = [dctx EXCEPT ![c] =
                       [@ EXCEPT !.pc = "chan", !.effects = @ \cup {"parseChannel"}]]
    /\ UNCHANGED <<notCommandMessages, messages, deleteIssued, ccVars, swVars, evVars>>

\* Lines 33-45 when parseChannel has answered.
DeleteChannel(c) ==
    /\ dctx[c].pc = "chan"
    /\ LET r == dctx[c]
           found == r.channelId \in ChannelIds
           own == [channel |-> CtxChannel(c), id |-> CtxMsg(c)]
       IN  IF ~found
           THEN /\ dctx' = [dctx EXCEPT ![c] = ReturnError(r, "noChannelFound")]
                /\ UNCHANGED <<notCommandMessages, deleteIssued>>
           ELSE IF CtxMsg(c) # r.messageId
           THEN /\ dctx' = [dctx EXCEPT ![c] =
                              [r EXCEPT !.pc = "getmsg", !.channel = r.channelId,
                                        !.effects = @ \cup {"getMessage"}]]
                /\ UNCHANGED <<notCommandMessages, deleteIssued>>
           ELSE MarkAndIssueDelete(c, [r EXCEPT !.channel = r.channelId], own)
    /\ UNCHANGED <<messages, ccVars, swVars, evVars>>

\* Line 38 resolves: the message exists in the channel and is returned.
DeleteGetMessageOk(c) ==
    /\ dctx[c].pc = "getmsg"
    /\ <<dctx[c].channel, dctx[c].messageId>> \in messages
    /\ MarkAndIssueDelete(c, dctx[c],
                          [channel |-> dctx[c].channel, id |-> dctx[c].messageId])
    /\ UNCHANGED <<messages, ccVars, swVars, evVars>>

\* Line 39-41: bot.getMessage throws (unknown message, transport error).
DeleteGetMessageFail(c) ==
    /\ dctx[c].pc = "getmsg"
    /\ dctx' = [dctx EXCEPT ![c] = ReturnError(@, "noMessageFound")]
    /\ UNCHANGED <<notCommandMessages, messages, deleteIssued, ccVars, swVars, evVars>>

\* Line 49 resolves: the platform deleted the message.
DeleteMessageOk(c) ==
    /\ dctx[c].pc = "deleting"
    /\ <<dctx[c].msg.channel, dctx[c].msg.id>> \in messages
    /\ messages' = messages \ {<<dctx[c].msg.channel, dctx[c].msg.id>>}
    /\ dctx' = [dctx EXCEPT ![c] =
                  [@ EXCEPT !.pc = "done", !.result = "none", !.deleteOutcome = "ok"]]
    /\ UNCHANGED <<notCommandMessages, deleteIssued, ccVars, swVars, evVars>>

\* Lines 51-53: bot.deleteMessage throws; the catch block is empty.
DeleteMessageFail(c) ==
    /\ dctx[c].pc = "deleting"
    /\ dctx' = [dctx EXCEPT ![c] =
                  [@ EXCEPT !.pc = "done", !.result = "none", !.deleteOutcome = "failed"]]
    /\ UNCHANGED <<notCommandMessages, messages, deleteIssued, ccVars, swVars, evVars>>

\* The invocation is over and its Context is dropped.
ContextDiscard(c) ==
    /\ dctx[c].pc = "done"
    /\ dctx' = [dctx EXCEPT ![c] = [@ EXCEPT !.pc = "discarded"]]
    /\ UNCHANGED <<notCommandMessages, messages, deleteIssued, ccVars, swVars, evVars>>

(***************************************************************************)
(*                 ccommand  (part_001, class CustomCommand)               *)
(***************************************************************************)

Procs == {"p1", "p2"}
Names == {"a", "b"}
\* context.author.id of each invocation
ProcAuthor(p) == IF p = "p1" THEN "u1" ELSE "u2"

\* What a user may type as a command name; "undef" is a missing argument.
RawNames == {"a", "A", "b", "@", "undef"}
\* What a user may answer to a query; "c" cancels, "undef" is no answer in time.
NameReplies == {"a", "B", "@", "c", "undef"}
\* Contents: "" is an empty argument.
ContentArgs == {"ok", "warn", "bad", "bad2", ""}
ContentReplies == {"ok", "bad", "c", "", "undef"}

\* normalizeName: drops the characters outside the allowed class, lower-cases.
normalizeName(title) ==
    CASE title = "A" -> "a"
      [] title = "B" -> "b"
      [] title = "@" -> ""
      [] OTHER -> title

\* analysis.errors.length for the content, as this.cluster.bbtag.check reports it
AnalysisErrors(content) ==
    CASE content = "bad" -> 1
      [] content = "bad2" -> 2
      [] OTHER -> 0

NoCommand == [kind |-> "none", content |-> "", author |-> "none"]

\* found and foundTo are history: what the store held under the name (and the
\* new name of a rename) at the moment the invocation's write landed.
IdleProc == [pc |-> "idle", op |-> "none", name |-> "", content |-> "",
             current |-> "none", analysed |-> FALSE, wrote |-> FALSE,
             reply |-> "pending",
             to |-> "", found |-> "unset", foundTo |-> "unset",
             matchAuthor |-> "none", debug |-> FALSE, executed |-> FALSE]

SaveOps == {"create", "edit", "set"}

Reply(r, text) == [r EXCEPT !.pc = "done", !.reply = text]

\* Mutant of SaveBlocked: one analysis error is let through.
SaveBlocked_Mut(content) == AnalysisErrors(content) > 1

\* saveCommand line 714: analysis.errors.length > 0
SaveBlocked(content) == AnalysisErrors(content) > 0

\* saveCommand lines 713-730 once the content is known: the analysis, then
\* either the error reply or the call of setCommand.
Analyse(r, content) ==
    IF SaveBlocked(content)
    THEN Reply([r EXCEPT !.content = content, !.analysed = TRUE], "analysisErrors")
    ELSE [r EXCEPT !.content = content, !.analysed = TRUE, !.pc = "write"]

\* saveCommand lines 709-711 with requestCommandContent lines 760-763: a
\* non-empty content is used as it is, otherwise the user is asked.
SaveCommand(r, content) ==
    IF content # "undef" /\ content # ""
    THEN Analyse(r, content)
    ELSE [r EXCEPT !.pc = "askContent"]

\* requestCommandName lines 739-748 up to the query.
\* A subcommand starts: its name argument is normalised, or the user is asked.
CcStart(p) ==
    /\ cproc[p].pc = "idle"
    /\ \E op \in {"create", "edit", "set", "delete"},
          raw \in RawNames, content \in ContentArgs :
         LET name == IF raw = "undef" THEN "" ELSE normalizeName(raw)
             r == [cproc[p] EXCEPT !.op = op, !.content = content]
         IN  cproc' = [cproc EXCEPT ![p] =
                         IF name # ""
                         THEN [r EXCEPT !.pc = "lookup", !.name = name]
                         ELSE [r EXCEPT !.pc = "askName"]]
    /\ UNCHANGED <<deleteVars, commands, swVars, evVars>>

\* requestCommandName lines 748-753: the answer to the name query.
CcNameReply(p) ==
    /\ cproc[p].pc = "askName"
    /\ \E raw \in NameReplies :
         LET name == IF raw \in {"undef", "c"} THEN "" ELSE normalizeName(raw)
         IN  cproc' = [cproc EXCEPT ![p] =
                         IF name # ""
                         THEN [@ EXCEPT !.pc = "lookup", !.name = name]
                         ELSE Reply(@, "none")]
    /\ UNCHANGED <<deleteVars, commands, swVars, evVars>>

\* requestCommand line 842 resolves, then the checks of requestCreatableCommand,
\* requestEditableCommand or requestSettableCommand and of the subcommand.
CcGetCommand(p) ==
    /\ cproc[p].pc = "lookup"
    /\ cproc[p].op \in {"create", "edit", "set", "delete"}
    /\ LET r == cproc[p]
           cmd == commands[r.name]
           rc == [r EXCEPT !.current = cmd.kind]
       IN  cproc' = [cproc EXCEPT ![p] =
             CASE r.op = "create" ->
                    IF cmd.kind # "none" THEN Reply(r, "alreadyExists")
                    ELSE SaveCommand(r, r.content)
               [] r.op = "edit" ->
                    IF cmd.kind = "none" THEN Reply(r, "doesntExist")
                    ELSE IF cmd.kind = "managed" THEN Reply(r, "managed")
                    ELSE IF cmd.kind = "alias" THEN Reply(r, "aliased")
                    ELSE SaveCommand(rc, r.content)
               [] r.op = "set" ->
                    IF cmd.kind = "alias" THEN Reply(r, "aliased")
                    ELSE SaveCommand(rc, r.content)
               [] OTHER ->
                    IF cmd.kind = "none" THEN Reply(r, "doesntExist")
                    ELSE IF cmd.kind = "managed" THEN Reply(r, "managed")
                    ELSE [rc EXCEPT !.pc = "write"]]
    /\ UNCHANGED <<deleteVars, commands, swVars, evVars>>

\* requestCommandContent lines 763-767: the answer to the content query.
CcContentReply(p) ==
    /\ cproc[p].pc = "askContent"
    /\ \E content \in ContentReplies :
         cproc' = [cproc EXCEPT ![p] =
                     IF content \in {"undef", "c", ""}
                     THEN Reply(@, "none")
                     ELSE Analyse(@, content)]
    /\ UNCHANGED <<deleteVars, commands, swVars, evVars>>

\* The command saveCommand builds (lines 717-728).
NewCommand(p, r) == [kind |-> "plain", content |-> r.content, author |-> ProcAuthor(p)]

\* database.guilds.setCommand takes effect: saveCommand line 730, deleteCommand line 267.
CcSetCommand(p) ==
    /\ cproc[p].pc = "write"
    /\ LET r == cproc[p]
       IN  /\ commands' = [commands EXCEPT ![r.name] =
                             IF r.op = "delete" THEN NoCommand ELSE NewCommand(p, r)]
           /\ cproc' = [cproc EXCEPT ![p] =
                          Reply([r EXCEPT !.wrote = TRUE, !.found = commands[r.name].kind],
                                IF r.op = "delete" THEN "deleted" ELSE "saved")]
    /\ UNCHANGED <<deleteVars, swVars, evVars>>

\* What a user may type as the new name of a rename.
NewNames == {"a", "B", "undef"}

\* renameCommand line 289, requestCommandName 739-748: the old name is
\* normalised, or the user is asked for it.
CcRenameStart(p) ==
    /\ cproc[p].pc = "idle"
    /\ \E raw \in {"a", "b", "undef"}, new \in NewNames :
         LET name == IF raw = "undef" THEN "" ELSE normalizeName(raw)
             r == [cproc[p] EXCEPT !.op = "rename", !.to = new]
         IN  cproc' = [cproc EXCEPT ![p] =
                         IF name # ""
                         THEN [r EXCEPT !.pc = "lookup", !.name = name]
                         ELSE [r EXCEPT !.pc = "askName"]]
    /\ UNCHANGED <<deleteVars, commands, swVars, evVars>>

\* renameCommand lines 289-293: getCommand for the old name resolves, then the
\* checks of requestEditableCommand; requestCreatableCommand starts with the
\* new name, normalised, or with the query for it.
CcRenameFrom(p) ==
    /\ cproc[p].pc = "lookup"
    /\ cproc[p].op = "rename"
    /\ LET r == cproc[p]
           cmd == commands[r.name]
           new == IF r.to = "undef" THEN "" ELSE normalizeName(r.to)
       IN  cproc' = [cproc EXCEPT ![p] =
             IF cmd.kind = "none" THEN Reply(r, "doesntExist")
             ELSE IF cmd.kind = "managed" THEN Reply(r, "managed")
             ELSE IF new # ""
             THEN [r EXCEPT !.current = cmd.kind, !.to = new, !.pc = "lookupNew"]
             ELSE [r EXCEPT !.current = cmd.kind, !.pc = "askNewName"]]
    /\ UNCHANGED <<deleteVars, commands, swVars, evVars>>

\* requestCommandName lines 748-753 for the new name.
CcRenameNameReply(p) ==
    /\ cproc[p].pc = "askNewName"
    /\ \E raw \in NameReplies :
         LET new == IF raw \in {"undef", "c"} THEN "" ELSE normalizeName(raw)
         IN  cproc' = [cproc EXCEPT ![p] =
                         IF new # ""
                         THEN [@ EXCEPT !.pc = "lookupNew", !.to = new]
                         ELSE Reply(@, "none")]
    /\ UNCHANGED <<deleteVars, commands, swVars, evVars>>

\* renameCommand lines 293-297: getCommand for the new name resolves, then the
\* check of requestCreatableCommand and the call of database renameCommand.
CcRenameTo(p) ==
    /\ cproc[p].pc = "lookupNew"
    /\ LET r == cproc[p]
       IN  cproc' = [cproc EXCEPT ![p] =
             IF commands[r.to].kind # "none" THEN Reply(r, "alreadyExists")
             ELSE [r EXCEPT !.pc = "rename"]]
    /\ UNCHANGED <<deleteVars, commands, swVars, evVars>>

\* What database.guilds.renameCommand leaves in the store: the command under
\* the old name is moved to the new name.
RenameInStore(store, from, to) ==
    [store EXCEPT ![to] = store[from], ![from] = NoCommand]

\* database.guilds.renameCommand takes effect.  When the old name holds no
\* command any more or the new name holds one by now, the store either moves
\* what is there or leaves everything as it is; the call reports nothing.
CcRenameCommand(p) ==
    /\ cproc[p].pc = "rename"
    /\ LET r == cproc[p]
           asChecked == commands[r.name].kind # "none" /\ commands[r.to].kind = "none"
       IN  /\ \/ commands' = RenameInStore(commands, r.name, r.to)
              \/ ~asChecked /\ commands' = commands
           /\ cproc' = [cproc EXCEPT ![p] =
                          Reply([r EXCEPT !.wrote = TRUE,
                                          !.found = commands[r.name].kind,
                                          !.foundTo = commands[r.to].kind],
                                "renamed")]
    /\ UNCHANGED <<deleteVars, swVars, evVars>>

\* Mutant of DebugRefused: anybody may debug.
DebugRefused_Mut(debug, author, user) == FALSE

\* runCommand line 212: debug && match.author !== context.author.id
DebugRefused(debug, author, user) == debug /\ author # user

\* runCommand lines 205-208 with requestCommandName 739-746: the name is
\* normalised; there is no query (allowQuery is false).
CcRunStart(p) ==
    /\ cproc[p].pc = "idle"
    /\ \E raw \in {"a", "A", "b", "@"}, debug \in BOOLEAN :
         LET name == normalizeName(raw)
             r == [cproc[p] EXCEPT !.op = "run", !.debug = debug]
         IN  cproc' = [cproc EXCEPT ![p] =
                         IF name # ""
                         THEN [r EXCEPT !.pc = "lookup", !.name = name]
                         ELSE Reply(r, "none")]
    /\ UNCHANGED <<deleteVars, commands, swVars, evVars>>

\* runCommand lines 208-219: getCommand resolves, the checks, then
\* bbtag.execute is called with the content that was read.
CcRunGetCommand(p) ==
    /\ cproc[p].pc = "lookup"
    /\ cproc[p].op = "run"
    /\ LET r == cproc[p]
           cmd == commands[r.name]
           rc == [r EXCEPT !.current = cmd.kind, !.matchAuthor = cmd.author,
                           !.content = cmd.content]
       IN  cproc' = [cproc EXCEPT ![p] =
             IF cmd.kind = "none" THEN Reply(r, "doesntExist")
             ELSE IF DebugRefused(r.debug, cmd.author, ProcAuthor(p))
             THEN Reply(rc, "cannotDebug")
             ELSE IF cmd.kind = "alias" THEN Reply(rc, "aliased")
             ELSE [rc EXCEPT !.pc = "execute"]]
    /\ UNCHANGED <<deleteVars, commands, swVars, evVars>>

\* runCommand lines 219-231: bbtag.execute resolves; the debug output is
\* returned in debug mode, nothing otherwise.
CcRunExecuted(p) ==
    /\ cproc[p].pc = "execute"
    /\ cproc' = [cproc EXCEPT ![p] =
                   Reply([@ EXCEPT !.executed = TRUE],
                         IF @.debug THEN "debugOutput" ELSE "none")]
    /\ UNCHANGED <<deleteVars, commands, swVars, evVars>>

(***************************************************************************)
(*            ccommand install  (part_001, lines 596-700, 883-909)         *)
(*                                                                         *)
(* The installation file is taken by what install reads of it: whether it  *)
(* maps, the state of its signature, the names of its commands, the number *)
(* of its autoresponses and whether it has an everything autoresponse.     *)
(* The store keeps the number of filtered autoresponses, the everything    *)
(* autoresponse and the indices N of the stored _autoresponse_N commands.  *)
(***************************************************************************)

\* The largest number of autoresponses in a modelled installation file.
MaxBundleAr == 2

\* installCommands line 646: arCount++ >= 20
ArLimit == 20

Key == "thanks, shrinkwrapper!"

InstallFiles ==
    [valid : BOOLEAN, signature : {"undefined", "correct", "incorrect"},
     cc : SUBSET Names, ar : 0..MaxBundleAr, are : BOOLEAN]

NoFile == [valid |-> FALSE, signature |-> "undefined", cc |-> {}, ar |-> 0, are |-> FALSE]

NoArStore == [list |-> 0, everything |-> FALSE, cmds |-> {}]

\* writes, overwrote and before are history: the store writes done by the
\* import steps, the names that held a command when an import step wrote
\* them, and the store as it was when install was called.
IdleInst == [pc |-> "idle", file |-> NoFile, warning |-> "none",
             snapAr |-> NoArStore, snapCommands |-> {},
             arCount |-> 0, arIndex |-> 0 - 1, ignored |-> <<>>,
             steps |-> <<>>, step |-> 1, commandName |-> 0 - 1,
             answer |-> "pending", reply |-> "pending",
             writes |-> 0, overwrote |-> {},
             before |-> [commands |-> [n \in Names |-> NoCommand], ar |-> NoArStore]]

InstIdle ==
    /\ inst = IdleInst
    /\ arStore = NoArStore

InstUser == "u1"

InstReply(r, text) == [r EXCEPT !.pc = "done", !.reply = text]

\* installCommands lines 596-604: the file is requested, or there is none.
InstallStart ==
    /\ inst.pc = "idle"
    /\ \E hasUrl \in BOOLEAN :
         inst' = IF hasUrl
                 THEN [inst EXCEPT !.pc = "fetch",
                                   !.before = [commands |-> commands, ar |-> arStore]]
                 ELSE InstReply(inst, "noFile")
    /\ UNCHANGED <<deleteVars, ccVars, evVars, bundle, swPc, swTampered, swWarning, arStore>>

\* installCommands lines 604-625: the file arrives and is mapped, the
\* signature warning is chosen, getShrinkwrapData starts with getAutoresponses.
InstallFetched ==
    /\ inst.pc = "fetch"
    /\ \E file \in InstallFiles :
         inst' = IF ~file.valid
                 THEN InstReply(inst, "malformed")
                 ELSE [inst EXCEPT !.pc = "getAutoresponses", !.file = file,
                                   !.warning = CASE file.signature = "undefined" -> "unsigned"
                                                 [] file.signature = "incorrect" -> "incorrect"
                                                 [] OTHER -> "none"]
    /\ UNCHANGED <<deleteVars, ccVars, evVars, bundle, swPc, swTampered, swWarning, arStore>>

\* getShrinkwrapData lines 892-893: getAutoresponses resolves, listCommands starts.
InstallGetAutoresponses ==
    /\ inst.pc = "getAutoresponses"
    /\ inst' = [inst EXCEPT !.pc = "listCommands", !.snapAr = arStore]
    /\ UNCHANGED <<deleteVars, ccVars, evVars, bundle, swPc, swTampered, swWarning, arStore>>

\* The order of Object.keys(shrinkwrap.cc) for a set of names.
RECURSIVE KeysOf(_, _)
KeysOf(names, order) ==
    IF order = <<>> THEN <<>>
    ELSE (IF Head(order) \in names THEN <<Head(order)>> ELSE <<>>)
           \o KeysOf(names, Tail(order))

\* Lines 627-641: one import step for each command whose name is not taken in
\* the commands that were read.
RECURSIVE CommandSteps(_, _)
CommandSteps(keys, taken) ==
    IF keys = <<>> THEN <<>>
    ELSE (IF Head(keys) \in taken THEN <<>>
          ELSE <<[kind |-> "cc", name |-> Head(keys)]>>)
           \o CommandSteps(Tail(keys), taken)

\* Mutant of LimitReached: one autoresponse more is let through.
LimitReached_Mut(arCount) == arCount > ArLimit

\* Line 646: arCount++ >= 20 (the value before the increment is compared)
LimitReached(arCount) == arCount >= ArLimit

\* Lines 643-663: the import steps for n autoresponses, counting from arCount.
RECURSIVE AutoresponseSteps(_, _)
AutoresponseSteps(n, arCount) ==
    IF n = 0 THEN <<>>
    ELSE (IF LimitReached(arCount) THEN <<>> ELSE <<[kind |-> "ar", name |-> ""]>>)
           \o AutoresponseSteps(n - 1, arCount + 1)

\* Lines 664-682
EverythingSteps(file, snapAr) ==
    IF file.are /\ ~snapAr.everything THEN <<[kind |-> "are", name |-> ""]>> ELSE <<>>

\* getShrinkwrapData lines 893-908 and installCommands lines 625-692:
\* listCommands resolves, the import steps are prepared and the user is asked
\* to confirm.
InstallListCommands ==
    /\ inst.pc = "listCommands"
    /\ LET taken == {n \in Names : commands[n].kind # "none"}
           file == inst.file
       IN  inst' = [inst EXCEPT
                      !.pc = "confirm",
                      !.snapCommands = taken,
                      !.snapAr = [@ EXCEPT !.cmds = arStore.cmds],
                      !.arCount = inst.snapAr.list + file.ar,
                      !.ignored = KeysOf(file.cc \cap taken, <<"a", "b">>),
                      !.steps = CommandSteps(KeysOf(file.cc, <<"a", "b">>), taken)
                                  \o AutoresponseSteps(file.ar, inst.snapAr.list)
                                  \o EverythingSteps(file, inst.snapAr)]
    /\ UNCHANGED <<deleteVars, ccVars, evVars, bundle, swPc, swTampered, swWarning, arStore>>

\* Mutant of Confirmed: any answer confirms.
Confirmed_Mut(answer) == answer # "undefined"

\* Line 693: response?.content !== key
Confirmed(answer) == answer = Key

\* Lines 696-699: the next import step is started, or install is over.
NextStep(r) ==
    IF r.step > Len(r.steps) THEN InstReply(r, "done") ELSE [r EXCEPT !.pc = "step"]

\* Lines 692-696: the answer to the confirmation query.
InstallConfirm ==
    /\ inst.pc = "confirm"
    /\ \E answer \in {Key, "Thanks, Shrinkwrapper!", "no", "undefined"} :
         inst' = IF Confirmed(answer)
                 THEN NextStep([inst EXCEPT !.answer = answer])
                 ELSE InstReply([inst EXCEPT !.answer = answer], "maybeNextTime")
    /\ UNCHANGED <<deleteVars, ccVars, evVars, bundle, swPc, swTampered, swWarning, arStore>>

\* Lines 654 and 672: the first index after arIndex with no _autoresponse_N in
\* the commands that were read.
RECURSIVE FreeIndex(_, _)
FreeIndex(i, cmds) == IF i \in cmds THEN FreeIndex(i + 1, cmds) ELSE i

\* Lines 633-639: the command an import step stores.
ImportedCommand == [kind |-> "plain", content |-> "ok", author |-> InstUser]

\* An import step up to the first store call taking effect: setCommand for a
\* command (636), addAutoresponse (655) or setAutoresponse (673) for an
\* autoresponse.
InstallStep ==
    /\ inst.pc = "step"
    /\ LET st == inst.steps[inst.step]
           index == FreeIndex(inst.arIndex + 1, inst.snapAr.cmds)
       IN  CASE st.kind = "cc" ->
                  /\ commands' = [commands EXCEPT ![st.name] = ImportedCommand]
                  /\ inst' = NextStep([inst EXCEPT
                                !.step = @ + 1, !.writes = @ + 1,
                                !.overwrote = IF commands[st.name].kind # "none"
                                              THEN @ \cup {st.name} ELSE @])
                  /\ UNCHANGED <<arStore, cproc>>
             [] st.kind = "ar" ->
                  /\ arStore' = [arStore EXCEPT !.list = @ + 1]
                  /\ inst' = [inst EXCEPT !.pc = "stepCommand", !.arIndex = index,
                                          !.commandName = index, !.writes = @ + 1]
                  /\ UNCHANGED ccVars
             [] OTHER ->
                  /\ arStore' = [arStore EXCEPT !.everything = TRUE]
                  /\ inst' = [inst EXCEPT !.pc = "stepCommand", !.arIndex = index,
                                          !.commandName = index, !.writes = @ + 1]
                  /\ UNCHANGED ccVars
    /\ UNCHANGED <<deleteVars, evVars, bundle, swPc, swTampered, swWarning>>

\* Lines 656 and 674: setCommand for the _autoresponse_N command takes effect.
InstallStepCommand ==
    /\ inst.pc = "stepCommand"
    /\ arStore' = [arStore EXCEPT !.cmds = @ \cup {inst.commandName}]
    /\ inst' = NextStep([inst EXCEPT !.step = @ + 1, !.writes = @ + 1])
    /\ UNCHANGED <<deleteVars, ccVars, evVars, bundle, swPc, swTampered, swWarning>>

(***************************************************************************)
(*     The evaluator and the Limit Policy  (spec.md 4.2 - 5, 7)            *)
(*                                                                         *)
(* A script is its call tree in document order: literals, calls without    *)
(* evaluated arguments, and the opening and closing of a call whose        *)
(* argument is evaluated ({echo;...}).                                     *)
(***************************************************************************)

\* The largest ceilings of a modelled Limit Policy, and the length of the clock.
MaxOutputCeil == 4
MaxCallCeil == 3
MaxDepthCeil == 2
MaxExtCeil == 1
MaxDeadline == 2
MaxTime == MaxDeadline + 1

Lit == [k |-> "lit", name |-> "", nargs |-> 0]
Call(name, n) == [k |-> "call", name |-> name, nargs |-> n]
Open(name) == [k |-> "open", name |-> name, nargs |-> 1]
Close == [k |-> "close", name |-> "", nargs |-> 0]

ScriptNames == {"errors", "nested", "selfimport", "external", "import", "halting"}

\* The stored scripts:
\*   errors      {user}x{delete;a;b;c}x
\*   nested      {echo;{echo;x}}x
\*   selfimport  x{exec;selfimport}x
\*   external    {user}x{delete}x
\*   import      {exec;errors}{delete}
\*   halting     x{halt}x
Scripts(name) ==
    CASE name = "errors" -> <<Call("user", 0), Lit, Call("delete", 3), Lit>>
      [] name = "nested" -> <<Open("echo"), Open("echo"), Lit, Close, Close, Lit>>
      [] name = "selfimport" -> <<Lit, Call("exec:selfimport", 1), Lit>>
      [] name = "external" -> <<Call("user", 0), Lit, Call("delete", 0), Lit>>
      [] name = "import" -> <<Call("exec:errors", 1), Call("delete", 0)>>
      [] OTHER -> <<Lit, Call("halt", 0), Lit>>

\* The script a nested-invocation subtag runs, "" for any other subtag.
ExecTarget(name) ==
    CASE name = "exec:selfimport" -> "selfimport"
      [] name = "exec:errors" -> "errors"
      [] OTHER -> ""

\* Registry lookup: the registered subtags.
Registry == {"delete", "echo", "halt", "exec:selfimport", "exec:errors"}

Policies ==
    [maxOutput : 1..MaxOutputCeil, maxCalls : 1..MaxCallCeil, maxDepth : 1..MaxDepthCeil,
     maxExt : 0..MaxExtCeil, maxTime : 1..MaxDeadline]

\* The profile of nested invocations: its own, tighter, sub-budget.
NestedPolicy ==
    [maxOutput |-> MaxOutputCeil, maxCalls |-> MaxCallCeil - 1, maxDepth |-> MaxDepthCeil,
     maxExt |-> MaxExtCeil, maxTime |-> MaxDeadline]

Min(a, b) == IF a < b THEN a ELSE b

NewContext(script, pol) ==
    [script |-> script, pc |-> 1, depth |-> 0, calls |-> 0, ext |-> 0, output |-> <<>>,
     waiting |-> FALSE, truncated |-> FALSE,
     maxOutput |-> pol.maxOutput, maxCalls |-> pol.maxCalls, maxDepth |-> pol.maxDepth,
     maxExt |-> pol.maxExt]

\* Mutant of ChildPolicy: the child gets the nested profile as it is.
ChildPolicy_Mut(parent) == NestedPolicy

\* 4.4: the child Context's budget is the nested profile capped by what the
\* parent has left.
ChildPolicy(parent) ==
    [maxOutput |-> Min(NestedPolicy.maxOutput, parent.maxOutput - Len(parent.output)),
     maxCalls |-> Min(NestedPolicy.maxCalls, parent.maxCalls - parent.calls),
     maxDepth |-> Min(NestedPolicy.maxDepth, parent.maxDepth - parent.depth),
     maxExt |-> Min(NestedPolicy.maxExt, parent.maxExt - parent.ext),
     maxTime |-> policy.maxTime]

NoTerminal == [type |-> "none", kind |-> "none"]

\* Mutant of LimitExceeded: the breach is reported as an ordinary runtime error.
LimitExceeded_Mut(kind) == [type |-> "SubtagRuntimeError", kind |-> kind]

\* 7: the terminal diagnostic of a breached ceiling
LimitExceeded(kind) == [type |-> "LimitExceeded", kind |-> kind]

Top == ctxStack[Len(ctxStack)]
SetTop(r) == [ctxStack EXCEPT ![Len(ctxStack)] = r]
Token(c) == Scripts(c.script)[c.pc]
AtToken(kind) ==
    /\ evStatus = "running"
    /\ ~Top.waiting
    /\ Top.pc <= Len(Scripts(Top.script))
    /\ Token(Top).k = kind

\* Mutant of CallsExceeded: the ceiling is tested one call late.
CallsExceeded_Mut(calls, max) == calls > max + 1

\* 4.3 Call 1: the incremented call counter exceeds the ceiling
CallsExceeded(calls, max) == calls > max

\* 4.3 Call 2: the incremented recursion depth exceeds the ceiling
DepthExceeded(depth, max) == depth > max

\* 5: the incremented external-call count exceeds the ceiling
ExtExceeded(ext, max) == ext > max

\* 4.3: the wall-clock deadline has passed
DeadlinePassed == now > policy.maxTime

\* The fatal abort: the stack is left as it stands, the invocation is over.
Abort(stack, kind) ==
    /\ ctxStack' = stack
    /\ evStatus' = "aborted"
    /\ terminal' = LimitExceeded(kind)

\* 4.3 / 3: text is appended to the output buffer, which is bounded by the
\* output ceiling: what does not fit is cut off and the evaluation ends.
Emit(c, text, errs) ==
    LET all == c.output \o text
    IN  IF Len(all) > c.maxOutput
        THEN /\ Abort(SetTop([c EXCEPT !.output = SubSeq(all, 1, c.maxOutput),
                                       !.truncated = TRUE]), "output")
             /\ evErrors' = evErrors \o errs
        ELSE /\ ctxStack' = SetTop([c EXCEPT !.output = all, !.pc = @ + 1])
             /\ evErrors' = evErrors \o errs
             /\ UNCHANGED <<evStatus, terminal>>

\* The invoking collaborator starts an invocation: runRaw and runCommand call
\* bbtag.execute with a fresh Limit Policy, which stays with the Context.
EvExecute ==
    /\ evStatus = "idle"
    /\ \E script \in ScriptNames, pol \in Policies :
         /\ policy' = pol
         /\ ctxStack' = <<NewContext(script, pol)>>
    /\ evStatus' = "running"
    /\ UNCHANGED <<terminal, evErrors, now, evGhost>>
    /\ UNCHANGED <<deleteVars, ccVars, swVars>>

\* 4.3 Literal
EvLiteral ==
    /\ AtToken("lit")
    /\ Emit(Top, <<"x">>, <<>>)
    /\ UNCHANGED <<now, policy, evGhost>>
    /\ UNCHANGED <<deleteVars, ccVars, swVars>>

\* What the entry of a call node finds, in the order of 4.3: the deadline at the
\* node boundary, the call counter, the recursion depth.
CallEntry(c) ==
    IF DeadlinePassed THEN "time"
    ELSE IF CallsExceeded(c.calls + 1, c.maxCalls) THEN "calls"
    ELSE IF DepthExceeded(c.depth + 1, c.maxDepth) THEN "depth"
    ELSE "ok"

Entered(c) == [c EXCEPT !.calls = @ + 1, !.depth = @ + 1]
NoteEntry == evGhost' = [evGhost EXCEPT !.executed = @ + 1, !.enteredAt = now]

\* A call node whose entry breaches the deadline, the call ceiling or the depth
\* ceiling: the call fails and the invocation aborts.  The call counter keeps
\* its incremented value; the depth is decremented again as the call exits.
EvCallBreach ==
    /\ \/ AtToken("call")
       \/ AtToken("open")
    /\ CallEntry(Top) # "ok"
    /\ LET kind == CallEntry(Top)
           c == CASE kind = "calls" -> [Top EXCEPT !.calls = @ + 1]
                  [] kind = "depth" -> [Top EXCEPT !.calls = @ + 1]
                  [] OTHER -> Top
       IN  Abort(SetTop(c), kind)
    /\ UNCHANGED <<evErrors, now, policy, evGhost>>
    /\ UNCHANGED <<deleteVars, ccVars, swVars>>

\* Mutant of RenderError: the diagnostic is thrown instead of rendered.
RenderError_Mut(c, err) ==
    /\ ctxStack' = SetTop(c)
    /\ evStatus' = "aborted"
    /\ terminal' = [type |-> err, kind |-> "none"]
    /\ evErrors' = Append(evErrors, err)

\* 4.3 Call 4 and 6: a non-fatal error is rendered in-band as an error token,
\* logged, and the call returns.
RenderError(c, err) == Emit([c EXCEPT !.depth = @ - 1], <<err>>, <<err>>)

\* 4.3 Call 4: the name is not registered.
EvUnknown ==
    /\ AtToken("call")
    /\ CallEntry(Top) = "ok"
    /\ Token(Top).name \notin Registry
    /\ RenderError(Entered(Top), "UnknownSubtag")
    /\ NoteEntry
    /\ UNCHANGED <<now, policy>>
    /\ UNCHANGED <<deleteVars, ccVars, swVars>>

\* 4.2: {delete} with a number of arguments no handler is registered for runs
\* the default handler, which reports the arity error.
EvArity ==
    /\ AtToken("call")
    /\ CallEntry(Top) = "ok"
    /\ Token(Top).name = "delete"
    /\ SelectHandler(DeleteArities, Token(Top).nargs) = DefaultHandler
    /\ RenderError(Entered(Top), "ArityError")
    /\ NoteEntry
    /\ UNCHANGED <<now, policy>>
    /\ UNCHANGED <<deleteVars, ccVars, swVars>>

\* 4.3 Call 6: the explicit halt subtag ends the invocation.
EvHalt ==
    /\ AtToken("call")
    /\ CallEntry(Top) = "ok"
    /\ Token(Top).name = "halt"
    /\ ctxStack' = SetTop(Entered(Top))
    /\ evStatus' = "halted"
    /\ terminal' = [type |-> "Halt", kind |-> "none"]
    /\ NoteEntry
    /\ UNCHANGED <<evErrors, now, policy>>
    /\ UNCHANGED <<deleteVars, ccVars, swVars>>

\* 4.3 Call 5: a call whose handler evaluates its argument ({echo;...}).
EvOpen ==
    /\ AtToken("open")
    /\ CallEntry(Top) = "ok"
    /\ ctxStack' = SetTop([Entered(Top) EXCEPT !.pc = @ + 1])
    /\ NoteEntry
    /\ UNCHANGED <<evStatus, terminal, evErrors, now, policy>>
    /\ UNCHANGED <<deleteVars, ccVars, swVars>>

\* 4.3 Call 2: the call returns, the depth is decremented.
EvClose ==
    /\ AtToken("close")
    /\ ctxStack' = SetTop([Top EXCEPT !.depth = @ - 1, !.pc = @ + 1])
    /\ UNCHANGED <<evStatus, terminal, evErrors, now, policy, evGhost>>
    /\ UNCHANGED <<deleteVars, ccVars, swVars>>

\* 5: {delete} with a registered arity calls into the platform; the external
\* call is counted and the evaluation is suspended until it returns.
EvExternal ==
    /\ AtToken("call")
    /\ CallEntry(Top) = "ok"
    /\ Token(Top).name = "delete"
    /\ SelectHandler(DeleteArities, Token(Top).nargs) # DefaultHandler
    /\ LET c == [Entered(Top) EXCEPT !.ext = @ + 1]
       IN  IF ExtExceeded(c.ext, c.maxExt)
           THEN Abort(SetTop(c), "external")
           ELSE /\ ctxStack' = SetTop([c EXCEPT !.waiting = TRUE])
                /\ UNCHANGED <<evStatus, terminal>>
    /\ NoteEntry
    /\ UNCHANGED <<evErrors, now, policy>>
    /\ UNCHANGED <<deleteVars, ccVars, swVars>>

\* 5: the capability call returns; the deadline is checked again.
EvExternalReturn ==
    /\ evStatus = "running"
    /\ Top.waiting
    /\ LET c == [Top EXCEPT !.waiting = FALSE, !.depth = @ - 1]
       IN  IF DeadlinePassed
           THEN Abort(SetTop(c), "time")
           ELSE /\ ctxStack' = SetTop([c EXCEPT !.pc = @ + 1])
                /\ UNCHANGED <<evStatus, terminal>>
    /\ UNCHANGED <<evErrors, now, policy, evGhost>>
    /\ UNCHANGED <<deleteVars, ccVars, swVars>>

\* 4.4: a subtag runs another stored script in a child Context.
EvNested ==
    /\ AtToken("call")
    /\ CallEntry(Top) = "ok"
    /\ ExecTarget(Token(Top).name) # ""
    /\ LET parent == Entered(Top)
       IN  ctxStack' = Append(SetTop(parent),
                              NewContext(ExecTarget(Token(Top).name), ChildPolicy(parent)))
    /\ NoteEntry
    /\ UNCHANGED <<evStatus, terminal, evErrors, now, policy>>
    /\ UNCHANGED <<deleteVars, ccVars, swVars>>

\* The end of a script: a child Context hands its output and what it consumed
\* to its parent and is discarded; the top-level Context ends the invocation.
EvReturn ==
    /\ evStatus = "running"
    /\ ~Top.waiting
    /\ Top.pc > Len(Scripts(Top.script))
    /\ IF Len(ctxStack) = 1
       THEN /\ evStatus' = "done"
            /\ UNCHANGED <<ctxStack, terminal>>
       ELSE LET child == Top
                parent == ctxStack[Len(ctxStack) - 1]
                back == [parent EXCEPT !.output = @ \o child.output,
                                       !.calls = @ + child.calls,
                                       !.ext = @ + child.ext,
                                       !.depth = @ - 1,
                                       !.pc = @ + 1]
            IN  /\ ctxStack' = [SubSeq(ctxStack, 1, Len(ctxStack) - 1)
                                  EXCEPT ![Len(ctxStack) - 1] = back]
                /\ UNCHANGED <<evStatus, terminal>>
    /\ UNCHANGED <<evErrors, now, policy, evGhost>>
    /\ UNCHANGED <<deleteVars, ccVars, swVars>>

\* Time passes while the invocation runs.
EvTick ==
    /\ evStatus = "running"
    /\ now < MaxTime
    /\ now' = now + 1
    /\ UNCHANGED <<ctxStack, evStatus, terminal, evErrors, policy, evGhost>>
    /\ UNCHANGED <<deleteVars, ccVars, swVars>>

EvIdle ==
    /\ ctxStack = <<>>
    /\ evStatus = "idle"
    /\ terminal = NoTerminal
    /\ evErrors = <<>>
    /\ now = 0
    /\ policy = [maxOutput |-> 1, maxCalls |-> 1, maxDepth |-> 1, maxExt |-> 0, maxTime |-> 1]
    /\ evGhost = [executed |-> 0, enteredAt |-> 0]

(***************************************************************************)
(*        shrinkwrap / install  (part_001, lines 536-616, 854-947)         *)
(*                                                                         *)
(* A JavaScript object is modelled with the order of its keys, which is    *)
(* what JSON.stringify follows.  JSON text is a sequence of tokens.        *)
(***************************************************************************)

\* The most commands one export names.
MaxExport == 2

RECURSIVE JoinTokens(_, _)
\* parts joined by "," as JSON.stringify joins members and elements
JoinTokens(parts, i) ==
    IF i > Len(parts) THEN <<>>
    ELSE (IF i > 1 THEN <<",">> ELSE <<>>) \o parts[i] \o JoinTokens(parts, i + 1)

\* JSON.stringify of a ShrunkCommand: keys in the order shrinkCommand and
\* mapShrunkCommand both give them; a key whose value is undefined is left out.
StringifyCommand(cmd) ==
    <<"{", "content", ":", cmd.content>>
    \o (IF cmd.hidden # "undef" THEN <<",", "hidden", ":", cmd.hidden>> ELSE <<>>)
    \o <<"}">>

\* JSON.stringify of one autoresponse, in the object's own key order
StringifyAr(ar) ==
    LET member(k) == CASE k = "term" -> <<"term", ":", ar.term>>
                       [] k = "regex" -> <<"regex", ":", ar.regex>>
                       [] OTHER -> <<"executes", ":">> \o StringifyCommand(ar.executes)
    IN  <<"{">> \o JoinTokens([i \in 1..Len(ar.order) |-> member(ar.order[i])], 1) \o <<"}">>

\* JSON.stringify(shrinkwrap): members in the object's own key order
StringifyShrinkwrap(sw) ==
    LET cc == <<"{">>
              \o JoinTokens([i \in 1..Len(sw.cc) |->
                               <<sw.cc[i].name, ":">> \o StringifyCommand(sw.cc[i].cmd)], 1)
              \o <<"}">>
        ar == <<"[">> \o JoinTokens([i \in 1..Len(sw.ar) |-> StringifyAr(sw.ar[i])], 1)
              \o <<"]">>
        are == IF sw.are.isNull THEN <<"null">>
               ELSE <<"{", "executes", ":">> \o StringifyCommand(sw.are.executes) \o <<"}">>
        member(k) == CASE k = "cc" -> <<"cc", ":">> \o cc
                       [] k = "ar" -> <<"ar", ":">> \o ar
                       [] OTHER -> <<"are", ":">> \o are
    IN  <<"{">> \o JoinTokens([i \in 1..Len(sw.order) |-> member(sw.order[i])], 1) \o <<"}">>

\* signShrinkwrap: the HMAC (keyed by config.general.interface_key) of
\* JSON.stringify(shrinkwrap).  The digest is modelled as a tag on the signed
\* text: equal digests are equal texts, and nobody but the bot can make one.
signShrinkwrap(sw) == <<"hmac">> \o StringifyShrinkwrap(sw)

\* mapShrinkwrap lines 930-942: the value mapping.object builds, with the keys
\* in the order the mapping declares them (are, ar, cc; executes, regex, term).
mapShrinkwrap(sw) ==
    [sw EXCEPT !.order = <<"are", "ar", "cc">>,
               !.ar = [i \in 1..Len(sw.ar) |->
                         [sw.ar[i] EXCEPT !.order = <<"executes", "regex", "term">>]]]

NoCmd == [content |-> "", hidden |-> "undef"]
NoBundle == [signature |-> <<>>,
             payload |-> [order |-> <<>>, cc |-> <<>>, ar |-> <<>>,
                          are |-> [isNull |-> TRUE, executes |-> NoCmd]]]

\* shrinkCommand lines 854-866 of a stored command
shrinkCommand(command) == [content |-> command.content, hidden |-> command.hidden]

\* The guild data getShrinkwrapData returns for a name: the stored command, and
\* whether filtered autoresponses or the everything autoresponse execute it.
GuildData ==
    [content : {"ok", "hi"}, hidden : {"undef", "true"},
     role : {"missing", "cc", "ar", "are"}]

\* the key order of a stored autoresponse
ArOrders == {<<"term", "regex", "executes">>, <<"executes", "regex", "term">>}

RECURSIVE BuildShrinkwrap(_, _, _, _, _)
\* shrinkwrapCommands lines 540-569: the loop over commandNames
BuildShrinkwrap(sw, commandNames, data, arOrder, i) ==
    IF i > Len(commandNames) THEN sw
    ELSE LET name == commandNames[i]
             d == data[name]
             cmd == shrinkCommand(d)
             next == CASE d.role = "missing" -> sw
                       [] d.role = "ar" ->
                            [sw EXCEPT !.ar = Append(@, [order |-> arOrder, term |-> name,
                                                         regex |-> "false", executes |-> cmd])]
                       [] d.role = "are" ->
                            [sw EXCEPT !.are = [isNull |-> FALSE, executes |-> cmd]]
                       [] OTHER ->
                            [sw EXCEPT !.cc = Append(@, [name |-> name, cmd |-> cmd])]
         IN  BuildShrinkwrap(next, commandNames, data, arOrder, i + 1)

CommandNameLists ==
    {ns \in UNION {[1..k -> Names] : k \in 1..MaxExport} :
        \A i, j \in 1..Len(ns) : ns[i] = ns[j] => i = j}

\* const shrinkwrap: Shrinkwrap = { cc: {}, ar: [], are: null }
EmptyShrinkwrap == [order |-> <<"cc", "ar", "are">>, cc |-> <<>>, ar |-> <<>>,
                    are |-> [isNull |-> TRUE, executes |-> NoCmd]]

\* shrinkwrapCommands lines 536-580: the bundle is built and the user is asked.
ShrinkwrapCommands ==
    /\ swPc = "idle"
    /\ \E names \in CommandNameLists, data \in [Names -> GuildData], arOrder \in ArOrders :
         /\ \A n \in Names : data[n].role = "are" => \A o \in Names \ {n} : data[o].role # "are"
         /\ \A n \in Names : (\A i \in 1..Len(names) : names[i] # n) =>
                                data[n] = [content |-> "ok", hidden |-> "undef", role |-> "missing"]
         /\ bundle' = [signature |-> <<>>,
                       payload |-> BuildShrinkwrap(EmptyShrinkwrap, names, data, arOrder, 1)]
    /\ swPc' = "asked"
    /\ UNCHANGED <<evVars, deleteVars, ccVars, inst, arStore, swTampered, swWarning>>

\* shrinkwrapCommands lines 580-593: only the answer 'thanks, shrinkwrapper!'
\* gets the signed file.
ShrinkwrapConfirm ==
    /\ swPc = "asked"
    /\ \E answer \in {"thanks, shrinkwrapper!", "no", "undef"} :
         IF answer = "thanks, shrinkwrapper!"
         THEN /\ bundle' = [bundle EXCEPT !.signature = signShrinkwrap(bundle.payload)]
              /\ swPc' = "exported"
         ELSE /\ bundle' = NoBundle
              /\ swPc' = "refused"
    /\ UNCHANGED <<evVars, deleteVars, ccVars, inst, arStore, swTampered, swWarning>>

\* Somebody edits the exported file before it is installed: the content of a
\* command is changed, or a command is added.
TamperPayload ==
    /\ swPc = "exported"
    /\ ~swTampered
    /\ \/ /\ bundle.payload.cc # <<>>
          /\ bundle' = [bundle EXCEPT !.payload.cc[1].cmd.content = "evil"]
       \/ bundle' = [bundle EXCEPT !.payload.cc =
                       Append(@, [name |-> "evil", cmd |-> [content |-> "evil", hidden |-> "undef"]])]
    /\ swTampered' = TRUE
    /\ UNCHANGED <<evVars, deleteVars, ccVars, inst, arStore, swPc, swWarning>>

\* Somebody removes the signature from the file, or writes another one.
TamperSignature ==
    /\ swPc = "exported"
    /\ bundle.signature # <<>>
    /\ bundle.signature[1] = "hmac"
    /\ \E sig \in {<<>>, <<"forged">>} : bundle' = [bundle EXCEPT !.signature = sig]
    /\ UNCHANGED <<evVars, deleteVars, ccVars, inst, arStore, swPc, swTampered, swWarning>>

\* installCommands lines 604-616: the file is read back (JSON.parse keeps the
\* keys in the order of the text), mapped by mapSignedShrinkwrap, and its
\* signature is compared with the signature of the mapped payload.
InstallCheckSignature ==
    /\ swPc = "exported"
    /\ LET value == [signature |-> bundle.signature,
                     payload |-> mapShrinkwrap(bundle.payload)]
       IN  swWarning' =
             IF value.signature = <<>> THEN "unsigned"
             ELSE IF value.signature # signShrinkwrap(value.payload) THEN "incorrect"
             ELSE "none"
    /\ swPc' = "installing"
    /\ UNCHANGED <<evVars, deleteVars, ccVars, inst, arStore, bundle, swTampered>>

InitShrink ==
    /\ dctx = [c \in Contexts |-> IdleCtx]
    /\ notCommandMessages = {}
    /\ messages = {}
    /\ deleteIssued = {}
    /\ commands = [n \in Names |-> NoCommand]
    /\ cproc = [p \in Procs |-> IdleProc]
    /\ bundle = NoBundle
    /\ swPc = "idle"
    /\ swTampered = FALSE
    /\ swWarning = "pending"
    /\ EvIdle
    /\ InstIdle

NextShrink ==
    \/ ShrinkwrapCommands
    \/ ShrinkwrapConfirm
    \/ TamperPayload
    \/ TamperSignature
    \/ InstallCheckSignature

SpecShrink == InitShrink /\ [][NextShrink]_vars

InitDelete ==
    /\ dctx = [c \in Contexts |-> IdleCtx]
    /\ notCommandMessages = {}
    /\ messages = {<<"ch1", "m1">>, <<"ch1", "m2">>, <<"ch2", "m3">>}
    /\ deleteIssued = {}
    /\ commands = [n \in Names |-> NoCommand]
    /\ cproc = [p \in Procs |-> IdleProc]
    /\ bundle = NoBundle
    /\ swPc = "idle"
    /\ swTampered = FALSE
    /\ swWarning = "pending"
    /\ EvIdle
    /\ InstIdle

NextDelete ==
    \E c \in Contexts :
        \/ DeleteDispatch(c)
        \/ DeleteAuth(c)
        \/ DeleteChannel(c)
        \/ DeleteGetMessageOk(c)
        \/ DeleteGetMessageFail(c)
        \/ DeleteMessageOk(c)
        \/ DeleteMessageFail(c)
        \/ ContextDiscard(c)

SpecDelete == InitDelete /\ [][NextDelete]_vars

\* The stores an invocation may find: "a" absent, plain, managed or an alias.
InitStores ==
    {[n \in Names |-> IF n = "a" THEN [kind |-> k, content |-> IF k = "none" THEN "" ELSE "ok",
                                       author |-> IF k = "none" THEN "none" ELSE "u1"]
                      ELSE NoCommand] : k \in {"none", "plain", "managed", "alias"}}

InitCC ==
    /\ dctx = [c \in Contexts |-> IdleCtx]
    /\ notCommandMessages = {}
    /\ messages = {}
    /\ deleteIssued = {}
    /\ commands \in InitStores
    /\ cproc = [p \in Procs |-> IdleProc]
    /\ bundle = NoBundle
    /\ swPc = "idle"
    /\ swTampered = FALSE
    /\ swWarning = "pending"
    /\ EvIdle
    /\ InstIdle

NextCC ==
    \E p \in Procs :
        \/ CcStart(p)
        \/ CcNameReply(p)
        \/ CcGetCommand(p)
        \/ CcContentReply(p)
        \/ CcSetCommand(p)
        \/ CcRenameStart(p)
        \/ CcRenameFrom(p)
        \/ CcRenameNameReply(p)
        \/ CcRenameTo(p)
        \/ CcRenameCommand(p)
        \/ CcRunStart(p)
        \/ CcRunGetCommand(p)
        \/ CcRunExecuted(p)

SpecCC == InitCC /\ [][NextCC]_vars

InitEval ==
    /\ dctx = [c \in Contexts |-> IdleCtx]
    /\ notCommandMessages = {}
    /\ messages = {}
    /\ deleteIssued = {}
    /\ commands = [n \in Names |-> NoCommand]
    /\ cproc = [p \in Procs |-> IdleProc]
    /\ bundle = NoBundle
    /\ swPc = "idle"
    /\ swTampered = FALSE
    /\ swWarning = "pending"
    /\ EvIdle
    /\ InstIdle

NextEval ==
    \/ EvExecute
    \/ EvLiteral
    \/ EvCallBreach
    \/ EvUnknown
    \/ EvArity
    \/ EvHalt
    \/ EvOpen
    \/ EvClose
    \/ EvExternal
    \/ EvExternalReturn
    \/ EvNested
    \/ EvReturn
    \/ EvTick

SpecEval == InitEval /\ [][NextEval]_vars


\* The autoresponses a guild may hold when install is called: up to the limit,
\* each with its _autoresponse_N command.
InitArStores ==
    {[list |-> n, everything |-> e, cmds |-> {0}] :
        n \in (ArLimit - 1)..ArLimit, e \in BOOLEAN}

InitInstall ==
    /\ dctx = [c \in Contexts |-> IdleCtx]
    /\ notCommandMessages = {}
    /\ messages = {}
    /\ deleteIssued = {}
    /\ commands \in {store \in InitStores : store["a"].kind \in {"none", "plain"}}
    /\ cproc = [p \in Procs |-> IdleProc]
    /\ bundle = NoBundle
    /\ swPc = "idle"
    /\ swTampered = FALSE
    /\ swWarning = "pending"
    /\ EvIdle
    /\ inst = IdleInst
    /\ arStore \in InitArStores

\* install, and the ccommand invocations of another user on the same guild
NextInstall ==
    \/ InstallStart
    \/ InstallFetched
    \/ InstallGetAutoresponses
    \/ InstallListCommands
    \/ InstallConfirm
    \/ InstallStep
    \/ InstallStepCommand
    \/ CcStart("p2")
    \/ CcNameReply("p2")
    \/ CcGetCommand("p2")
    \/ CcContentReply("p2")
    \/ CcSetCommand("p2")

SpecInstall == InitInstall /\ [][NextInstall]_vars


(***************************************************************************)
(*                     Properties of {delete}                              *)
(***************************************************************************)

Finished(c) == dctx[c].pc \in {"done", "discarded"}

\* C2: arity dispatch. A call with n arguments runs the handler registered for
\* exactly n arguments (0, 1 or 2 for {delete}) and otherwise the default
\* handler; every {delete} call with 3 or more arguments has ended with the
\* too-many-arguments error and has done no channel lookup, no getMessage, no
\* deleteMessage and no marker write.
C2_ArityDispatch ==
    \A c \in Contexts :
        dctx[c].pc # "idle" =>
            /\ dctx[c].handler = (IF dctx[c].nargs \in {0, 1, 2}
                                  THEN dctx[c].nargs ELSE DefaultHandler)
            /\ dctx[c].nargs >= 3 =>
                 /\ Finished(c)
                 /\ dctx[c].result = "tooManyArguments"
                 /\ dctx[c].effects = {}

\* C2 witness: a call with three or more arguments has been answered, while
\* the other invocation has deleted a message.
C2_Witness ==
    \E c, d \in Contexts :
        /\ dctx[c].nargs >= 3 /\ dctx[c].result = "tooManyArguments"
        /\ dctx[d].nargs = 2 /\ dctx[d].deleteOutcome = "ok"

\* C3: whenever {delete} has issued bot.deleteMessage for message M in guild G,
\* the notCommandMessages marker of (G, M) is set (markers are never cleared, so
\* it was set when the call was issued).
C3_MarkerKeyedByDeletedMessage ==
    \A call \in deleteIssued : <<call[1], call[3]>> \in notCommandMessages

\* C4: a failed bot.deleteMessage is reported: the run ends with an error
\* result or with an entry in its error log.
C4_DeleteFailureReported ==
    \A c \in Contexts :
        (Finished(c) /\ dctx[c].deleteOutcome = "failed") =>
            (dctx[c].result # "none" \/ dctx[c].errors # {})

\* C5: evaluating {delete} writes only to its own Context: once every Context
\* is discarded, nothing an invocation wrote outside the platform is left.
C5_NoSharedStateAfterDiscard ==
    (\A c \in Contexts : dctx[c].pc = "discarded") => notCommandMessages = {}

\* C18: a {delete} call of a non-staff author whose Context does not own the
\* target message has ended with the error 'Author must be staff to delete
\* unrelated messages' and has done no channel lookup, no getMessage, no
\* deleteMessage and no marker write.
C18_NotStaffNoSideEffect ==
    \A c \in Contexts :
        (/\ dctx[c].pc \notin {"idle", "auth"}
         /\ dctx[c].handler # DefaultHandler
         /\ ~dctx[c].isStaff
         /\ ~dctx[c].owns) =>
            /\ Finished(c)
            /\ dctx[c].result = "notStaff"
            /\ dctx[c].errors = {"notStaff"}
            /\ dctx[c].effects = {}
            /\ dctx[c].deleteOutcome = "none"

\* C18 witness: a call by a non-staff author on a message it does not own was
\* refused, and nothing was marked or deleted.
C18_Witness ==
    \E c \in Contexts :
        /\ dctx[c].result = "notStaff"
        /\ dctx[c].handler = 1
        /\ dctx[c].messageId # CtxMsg(c)
        /\ notCommandMessages = {}
        /\ deleteIssued = {}

\* C19: only ccommands delete other messages: an invocation that is not a
\* custom command issues bot.deleteMessage for no message but the one that
\* invoked it.
C19_OnlyCcommandsDeleteOthers ==
    \A c \in Contexts :
        (~CtxIsCC(c) /\ "deleteMessage" \in dctx[c].effects) =>
            dctx[c].msg.id = CtxMsg(c)

(***************************************************************************)
(*                     Properties of ccommand                              *)
(***************************************************************************)

\* C1: ccommand create, edit and set reach setCommand only when the analysis of
\* the content found no error; when it found at least one, the invocation has
\* ended with the analysis-errors reply and has written nothing to the store.
C1_NoSaveOnAnalysisErrors ==
    \A p \in Procs :
        cproc[p].op \in SaveOps =>
            /\ (cproc[p].pc = "write" \/ cproc[p].wrote) =>
                   (cproc[p].analysed /\ AnalysisErrors(cproc[p].content) = 0)
            /\ (cproc[p].analysed /\ AnalysisErrors(cproc[p].content) > 0) =>
                   /\ cproc[p].pc = "done"
                   /\ cproc[p].reply = "analysisErrors"
                   /\ ~cproc[p].wrote

\* C1 witness: create, edit and set have each been refused for analysis errors
\* or have saved; here an edit was refused while another invocation saved.
C1_Witness ==
    \E p, q \in Procs :
        /\ cproc[p].op = "edit" /\ cproc[p].reply = "analysisErrors"
        /\ cproc[q].op \in {"create", "set"} /\ cproc[q].reply = "saved"

\* C13: ccommand create never changes a command that already exists: the write
\* done by create lands on a name that holds no command at that moment.
C13_CreateNeverOverwrites ==
    \A p \in Procs :
        (cproc[p].op = "create" /\ cproc[p].wrote) => cproc[p].found = "none"

\* C14: ccommand edit only edits an existing command: the write done by edit
\* lands on a name that holds a command at that moment.
C14_EditNeverCreates ==
    \A p \in Procs :
        (cproc[p].op = "edit" /\ cproc[p].wrote) => cproc[p].found # "none"

\* C15: ccommand rename calls the store only when, at that moment, the old name
\* holds a command and the new name holds none, so that no command stored
\* under the new name is overwritten.
C15_RenameOnlyOntoFreeName ==
    \A p \in Procs :
        (cproc[p].op = "rename" /\ cproc[p].wrote) =>
            (cproc[p].found # "none" /\ cproc[p].foundTo = "none")

\* C16: a run in debug mode of a command whose author is another user has
\* ended with 'You cannot debug someone elses custom command.': the script is
\* not executed and no debug output is produced; the debug output is only ever
\* produced for the author of the command that was read.
C16_DebugOnlyForAuthor ==
    \A p \in Procs :
        (cproc[p].op = "run" /\ cproc[p].debug) =>
            /\ (cproc[p].current # "none" /\ cproc[p].matchAuthor # ProcAuthor(p)) =>
                   /\ cproc[p].pc = "done"
                   /\ cproc[p].reply = "cannotDebug"
                   /\ ~cproc[p].executed
            /\ (cproc[p].pc = "execute" \/ cproc[p].executed
                   \/ cproc[p].reply = "debugOutput") =>
                   cproc[p].matchAuthor = ProcAuthor(p)

\* C16 witness: the author debugged the command and got the debug output, while
\* another user was refused.
C16_Witness ==
    \E p, q \in Procs :
        /\ cproc[p].op = "run" /\ cproc[p].debug
        /\ cproc[p].executed /\ cproc[p].reply = "debugOutput"
        /\ cproc[q].op = "run" /\ cproc[q].debug
        /\ cproc[q].reply = "cannotDebug" /\ ~cproc[q].executed

(***************************************************************************)
(*                     Properties of ccommand install                      *)
(***************************************************************************)

\* The number of import steps that add a filtered autoresponse.
ArSteps == Len(SelectSeq(inst.steps, LAMBDA st : st.kind = "ar"))

\* C11: install never replaces a custom command that already exists: no import
\* step writes a command under a name that holds a command at that moment.
C11_InstallNeverOverwrites ==
    inst.overwrote = {}

\* C12: install writes to the store only after the answer 'thanks,
\* shrinkwrapper!': the import steps run only then, and after any other answer
\* or none install has written nothing, so the autoresponses are as they were
\* when install was called, and so are the commands unless another invocation
\* wrote them.
C12_NoWriteWithoutConfirmation ==
    /\ (inst.writes > 0 \/ inst.pc \in {"step", "stepCommand"} \/ inst.reply = "done")
          => inst.answer = Key
    /\ (inst.pc = "done" /\ inst.reply # "done") =>
          /\ inst.writes = 0
          /\ arStore = inst.before.ar \/ inst.reply = "noFile"
          /\ (~cproc["p2"].wrote /\ inst.reply # "noFile")
                => commands = inst.before.commands

\* C12 witness: import steps were prepared, the answer differed from the key in
\* its capitals only, and install ended without a write.
C12_Witness ==
    /\ inst.reply = "maybeNextTime"
    /\ inst.answer = "Thanks, Shrinkwrapper!"
    /\ Len(inst.steps) >= 2
    /\ ~cproc["p2"].wrote
    /\ commands = inst.before.commands

\* C17: a guild that has at most 20 filtered autoresponses when install is
\* called has at most 20 at any time of the install and when it is over: the
\* autoresponses taking the count past 20 get no import step, and install adds
\* exactly the others.
C17_AutoresponseLimit ==
    /\ arStore.list <= ArLimit
    /\ inst.pc \in {"confirm", "step", "stepCommand"} \/ inst.reply \in {"done", "maybeNextTime"} =>
          /\ inst.snapAr.list + ArSteps <= ArLimit
          /\ ArSteps = Min(inst.file.ar, ArLimit - inst.snapAr.list)
    /\ inst.reply = "done" => arStore.list = inst.before.ar.list + ArSteps

\* C17 witness: a file with two autoresponses was installed on a guild that had
\* 19: one was imported, one ignored.
C17_Witness ==
    /\ inst.reply = "done"
    /\ inst.file.ar = 2
    /\ inst.before.ar.list = ArLimit - 1
    /\ ArSteps = 1
    /\ arStore.list = ArLimit

(***************************************************************************)
(*                     Properties of the evaluator                         *)
(***************************************************************************)

\* What run() hands back: the accumulated output of the top-level Context.
Returned == ctxStack[1].output

RECURSIVE StackDepth(_)
StackDepth(stack) ==
    IF stack = <<>> THEN 0 ELSE stack[1].depth + StackDepth(Tail(stack))

\* The output a Context has produced once the first n nodes of its script have
\* been evaluated and nothing aborted.
RECURSIVE Render(_, _)
Render(script, n) ==
    IF n = 0 THEN <<>>
    ELSE LET tok == Scripts(script)[n]
             text == CASE tok.k = "lit" -> <<"x">>
                       [] tok.k = "call" /\ tok.name \notin Registry -> <<"UnknownSubtag">>
                       [] tok.k = "call" /\ tok.name = "delete"
                            /\ SelectHandler(DeleteArities, tok.nargs) = DefaultHandler
                            -> <<"ArityError">>
                       [] tok.k = "call" /\ ExecTarget(tok.name) \notin {"", script}
                            -> Render(ExecTarget(tok.name),
                                      Len(Scripts(ExecTarget(tok.name))))
                       [] OTHER -> <<>>
         IN  Render(script, n - 1) \o text

Breached ==
    \E i \in 1..Len(ctxStack) :
        \/ ctxStack[i].calls > ctxStack[i].maxCalls
        \/ ctxStack[i].ext > ctxStack[i].maxExt
        \/ ctxStack[i].truncated

C9_ChildBudgetCapped ==
    /\ \A i \in 2..Len(ctxStack) :
          LET child == ctxStack[i]
              parent == ctxStack[i - 1]
          IN  /\ child.maxCalls - child.calls <= parent.maxCalls - parent.calls
              /\ child.maxOutput - Len(child.output)
                    <= parent.maxOutput - Len(parent.output)
              /\ child.maxDepth - child.depth <= parent.maxDepth - parent.depth
              /\ child.maxExt - child.ext <= parent.maxExt - parent.ext
    /\ evStatus # "idle" => evGhost.executed <= policy.maxCalls

\* The self-importing script exhausts the budget it shares with its child.
C9_Witness ==
    /\ Len(ctxStack) >= 2
    /\ ctxStack[1].script = "selfimport"
    /\ terminal = LimitExceeded("calls")
    /\ evGhost.executed = policy.maxCalls

====
